---- MODULE Spec2Model ----
(***************************************************************************)
(* A state-machine model of causalnlp.causalinference.CausalInferenceModel *)
(* (the causal inference orchestrator).  Dataframes and learners are       *)
(* objects with identity: a reference is an id, `heap` maps dataframe ids  *)
(* to their contents, and a learner reference carries the id of the        *)
(* object it points to.  The collaborators that are imported by the        *)
(* orchestrator but defined elsewhere (DataframePreprocessor, the          *)
(* metalearner classes, Sensitivity, RandomizedSearchCV) are modelled by   *)
(* their interface contract.                                               *)
(***************************************************************************)
EXTENDS Integers, Sequences, FiniteSets, TLC

\* Largest number of observations (rows) of a caller's dataframe.
MaxRows == 2

\* The orchestrator instances a caller builds.
Orchs == {"cm1", "cm2"}

\* Python's None, for string-valued slots.
None == "None"

-----------------------------------------------------------------------------
(* Module-level tables *)

metalearner_cls_dict ==
    [tag \in {"t-learner", "x-learner", "r-learner", "s-learner"} |->
        CASE tag = "t-learner" -> "BaseTClassifier"
          [] tag = "x-learner" -> "BaseXClassifier"
          [] tag = "r-learner" -> "BaseRClassifier"
          [] tag = "s-learner" -> "BaseSClassifier"]

metalearner_reg_dict ==
    [tag \in {"t-learner", "x-learner", "r-learner", "s-learner"} |->
        CASE tag = "t-learner" -> "BaseTRegressor"
          [] tag = "x-learner" -> "BaseXRegressor"
          [] tag = "r-learner" -> "BaseRRegressor"
          [] tag = "s-learner" -> "BaseSRegressor"]

\* list(metalearner_cls_dict.keys()), in the dict's insertion order.
metalearner_list == <<"t-learner", "x-learner", "r-learner", "s-learner">>

\* The tags a caller passes: the recognised ones and an unrecognised one.
TagInputs == {"t-learner", "s-learner", "x-learner", "r-learner", "z-learner"}

\* The `method` values a caller passes to interpret.
MethodInputs == {"feature_importance", "shap_values", "permutation"}

\* The `scoring` values a caller passes to tune_and_use_default_learner.
ScoringInputs == {None, "f1"}

\* The configurations the randomized search can return as best_params_.
BestParams == {"best_A", "best_B"}

\* The name of the Treatment Effect Column (treatment_effect_col's default).
TeCol == "treatment_effect"

-----------------------------------------------------------------------------
(* Arithmetic helpers *)

RECURSIVE SumSeq(_)
SumSeq(s) == IF s = <<>> THEN 0 ELSE Head(s) + SumSeq(Tail(s))

Abs(n) == IF n < 0 THEN -n ELSE n

RECURSIVE Gcd(_, _)
Gcd(a, b) == IF b = 0 THEN a ELSE Gcd(b, a % b)

\* numpy.mean of a one-dimensional array: the exact quotient sum/len as a
\* fraction in lowest terms; the mean of an empty array is nan (den = 0).
NaN == [num |-> 0, den |-> 0]

np_mean(a) ==
    IF Len(a) = 0 THEN NaN
    ELSE LET s == SumSeq(a)
             g == Gcd(Abs(s), Len(a))
         IN  [num |-> s \div g, den |-> Len(a) \div g]

\* df[bool_mask] on one column: the entries whose mask entry is true, in order.
RECURSIVE MaskSeq(_, _)
MaskSeq(s, mask) ==
    IF s = <<>> THEN <<>>
    ELSE (IF Head(mask) THEN <<Head(s)>> ELSE <<>>) \o MaskSeq(Tail(s), Tail(mask))

-----------------------------------------------------------------------------
(* Dataframes *)

CallerTrain == <<"caller", "train">>
CallerTest  == <<"caller", "test">>
CallerFrames == {CallerTrain, CallerTest}
NoRef == <<"none", "none">>
CopyRef(o) == <<o, "copy">>
PpRef(o) == <<o, "preprocessed">>
FrameIds == CallerFrames \cup {CopyRef(o) : o \in Orchs} \cup {PpRef(o) : o \in Orchs}

NoFrame == [cols |-> {}, f |-> <<>>, t |-> <<>>, y |-> <<>>, te |-> <<>>]

\* A caller's dataframe: an id column (listed in ignore_cols), one covariate,
\* the treatment and the outcome; row i is treated iff i is odd.
RawFrame(fs, ys) ==
    [cols |-> {"id", "f", "treatment", "outcome"},
     f |-> fs,
     t |-> [i \in 1..Len(fs) |-> i % 2],
     y |-> ys,
     te |-> <<>>]

OutcomeVals == {1, 2}

-----------------------------------------------------------------------------
(* Learners *)

NoLearner == [id |-> NoRef, kind |-> None, params |-> None]

\* The learner and effect_learner objects a caller may supply.
CallerLearner == [id |-> <<"caller", "learner">>, kind |-> "custom", params |-> "caller"]
CallerEffectLearner ==
    [id |-> <<"caller", "effect_learner">>, kind |-> "custom", params |-> "caller"]

LGBMClassifier(id, params) == [id |-> id, kind |-> "LGBMClassifier", params |-> params]
LGBMRegressor(id, params) == [id |-> id, kind |-> "LGBMRegressor", params |-> params]

\* copy.deepcopy: a new object (a new id) with the same configuration.
deepcopy(l, id) == [l EXCEPT !.id = id]

-----------------------------------------------------------------------------
(* Collaborators, by their interface contract *)

\* DataframePreprocessor.preprocess(df, training): the transformed dataframe
\* (the ignored column dropped), the feature matrix X, the outcome Y and the
\* treatment T.  In training mode the task type is derived from Y.
Preprocess(frame, training) ==
    [df |-> [frame EXCEPT !.cols = @ \ {"id"}],
     x |-> [columns |-> <<"f">>,
            values |-> [i \in 1..Len(frame.f) |-> <<frame.f[i]>>]],
     y |-> frame.y,
     treatment |-> frame.t,
     is_classification |-> \A i \in 1..Len(frame.y) : frame.y[i] \in {0, 1}]

Unfit == [fit |-> FALSE, mu1 |-> 0, mu0 |-> 0, ncols |-> 0]

\* metalearner.fit(X, treatment, y): a deterministic learner; its fitted state
\* is a function of the training data.
MetaFit(m, X, T, Y) ==
    [m EXCEPT !.fitted =
        [fit |-> TRUE,
         mu1 |-> SumSeq([i \in 1..Len(Y) |-> IF T[i] = 1 THEN Y[i] ELSE 0]),
         mu0 |-> SumSeq([i \in 1..Len(Y) |-> IF T[i] = 0 THEN Y[i] ELSE 0]),
         ncols |-> IF Len(X) = 0 THEN 0 ELSE Len(X[1])]]

\* metalearner.predict(X): one effect estimate per row, in row order; fails
\* when not fitted or when the column count differs from the fitted one.
MetaPredict(m, X) ==
    IF ~m.fitted.fit THEN [error |-> "NotFittedError", value |-> <<>>]
    ELSE IF \E i \in 1..Len(X) : Len(X[i]) # m.fitted.ncols
         THEN [error |-> "ShapeMismatch", value |-> <<>>]
    ELSE [error |-> None,
          value |-> [i \in 1..Len(X) |-> (m.fitted.mu1 - m.fitted.mu0) + SumSeq(X[i])]]

-----------------------------------------------------------------------------
(* State *)

VARIABLES
    heap,        \* dataframe id -> dataframe contents
    ppInPlace,   \* whether preprocess transforms its argument in place
    df,          \* self.df: reference to the stored dataset (NoRef: no instance)
    x,           \* self.x: the feature matrix (a DataFrame)
    y,           \* self.y
    treatment,   \* self.treatment
    pp,          \* self.pp: the preprocessor's derived metadata
    model,       \* self.model: the metalearner instance
    learner,     \* self.learner (set by tune_and_use_default_learner only)
    last         \* the last call: operation, instance, arguments, outcome

vars == <<heap, ppInPlace, df, x, y, treatment, pp, model, learner, last>>

NoX == [columns |-> <<>>, values |-> <<>>]
NoModel == [cls |-> None, roles |-> <<>>, fitted |-> Unfit]
NoArg == [tag |-> None]

\* An exception's message: the format text, the offending value when the
\* message shows it, and the values the message lists.
Msg(text, shown, listed) == [text |-> text, shown |-> shown, listed |-> listed]
NoMsg == Msg("", None, <<>>)

Call(op, o, arg, error, msg, value, mlcall) ==
    [op |-> op, orch |-> o, arg |-> arg, error |-> error, msg |-> msg,
     value |-> value, mlcall |-> mlcall]

Exists(o) == df[o] # NoRef

\* The caller's datasets: 1..MaxRows observations, covariate f = row number.
Init ==
    /\ \E n \in 1..MaxRows : \E ys \in [1..n -> OutcomeVals] :
          heap = [id \in FrameIds |->
                    IF id = CallerTrain THEN RawFrame([i \in 1..n |-> i], ys)
                    ELSE IF id = CallerTest
                         THEN RawFrame([i \in 1..n |-> i + 1], ys)
                    ELSE NoFrame]
    /\ ppInPlace \in BOOLEAN
    /\ df = [o \in Orchs |-> NoRef]
    /\ x = [o \in Orchs |-> NoX]
    /\ y = [o \in Orchs |-> <<>>]
    /\ treatment = [o \in Orchs |-> <<>>]
    /\ pp = [o \in Orchs |-> [is_classification |-> FALSE]]
    /\ model = [o \in Orchs |-> NoModel]
    /\ learner = [o \in Orchs |-> NoLearner]
    /\ last = Call("start", None, NoArg, None, NoMsg, <<>>, None)

-----------------------------------------------------------------------------
(* CausalInferenceModel.__init__ and _create_metalearner *)

IsRecognised(tag) == \E i \in 1..Len(metalearner_list) : metalearner_list[i] = tag

\* self.df = df.copy(): a new dataframe object with the same contents.
DfNoCopy(h, src, o) == [heap |-> h, ref |-> src]

DfCopy(h, src, o) == [heap |-> [h EXCEPT ![CopyRef(o)] = h[src]], ref |-> CopyRef(o)]

\* The learner objects handed to the metalearner's constructor, by keyword.
MetalearnerRoles(o, metalearner_type, lrn, effect_lrn) ==
    IF metalearner_type \in {"t-learner", "s-learner"}
    THEN [learner |-> lrn]
    ELSE IF metalearner_type \in {"x-learner"}
    THEN [control_outcome_learner |-> deepcopy(lrn, <<o, "control_outcome_learner">>),
          treatment_outcome_learner |-> deepcopy(lrn, <<o, "treatment_outcome_learner">>),
          control_effect_learner |-> deepcopy(effect_lrn, <<o, "control_effect_learner">>),
          treatment_effect_learner |->
              deepcopy(effect_lrn, <<o, "treatment_effect_learner">>)]
    ELSE [outcome_learner |-> deepcopy(lrn, <<o, "outcome_learner">>),
          effect_learner |-> deepcopy(effect_lrn, <<o, "effect_learner">>)]

\* _create_metalearner: the metalearner instance, or KeyError when the tag is
\* not a key of the class tables.
_create_metalearner(o, is_classification, metalearner_type, supplied_learner, supplied_effect_learner) ==
    LET default_learner ==
            IF is_classification
            THEN LGBMClassifier(<<o, "default_learner">>, "default")
            ELSE LGBMRegressor(<<o, "default_learner">>, "default")
        default_effect_learner == LGBMRegressor(<<o, "default_effect_learner">>, "default")
        lrn == IF supplied_learner = NoLearner THEN default_learner ELSE supplied_learner
        effect_lrn == IF supplied_effect_learner = NoLearner
                      THEN default_effect_learner ELSE supplied_effect_learner
    IN  IF metalearner_type \notin DOMAIN metalearner_cls_dict
        THEN [error |-> "KeyError", model |-> NoModel]
        ELSE [error |-> None,
              model |-> [cls |-> IF is_classification
                                 THEN metalearner_cls_dict[metalearner_type]
                                 ELSE metalearner_reg_dict[metalearner_type],
                         roles |-> MetalearnerRoles(o, metalearner_type, lrn, effect_lrn),
                         fitted |-> Unfit]]

InitArg(src, tag, sl, sel) ==
    [tag |-> tag, src |-> src, learner |-> sl, effect_learner |-> sel]

\* __init__ after the tag check: copy, preprocess, build the metalearner.
ConstructBody(o, src, tag, sl, sel) ==
    LET c == DfCopy(heap, src, o)
        r == Preprocess(c.heap[c.ref], TRUE)
        ref == IF ppInPlace THEN c.ref ELSE PpRef(o)
        h == [c.heap EXCEPT ![ref] = r.df]
        m == _create_metalearner(o, r.is_classification, tag, sl, sel)
    IN  /\ heap' = h
        /\ IF m.error # None
           THEN /\ last' = Call("__init__", o, InitArg(src, tag, sl, sel),
                                m.error, Msg("%s", tag, <<>>), <<>>, None)
                /\ UNCHANGED <<df, x, y, treatment, pp, model, learner>>
           ELSE /\ df' = [df EXCEPT ![o] = ref]
                /\ x' = [x EXCEPT ![o] = r.x]
                /\ y' = [y EXCEPT ![o] = r.y]
                /\ treatment' = [treatment EXCEPT ![o] = r.treatment]
                /\ pp' = [pp EXCEPT ![o] = [is_classification |-> r.is_classification]]
                /\ model' = [model EXCEPT ![o] = m.model]
                /\ last' = Call("__init__", o, InitArg(src, tag, sl, sel),
                                None, NoMsg, <<>>, None)
                /\ UNCHANGED learner
        /\ UNCHANGED ppInPlace

\* __init__ with the tag check left out.
ConstructUnchecked(o, src, tag, sl, sel) ==
    /\ ~Exists(o)
    /\ ConstructBody(o, src, tag, sl, sel)

Construct(o, src, tag, sl, sel) ==
    /\ ~Exists(o)
    /\ IF ~IsRecognised(tag)
       THEN /\ last' = Call("__init__", o, InitArg(src, tag, sl, sel), "ValueError",
                            Msg("metalearner_type is required and must be one of: %s",
                                None, metalearner_list),
                            <<>>, None)
            /\ UNCHANGED <<heap, ppInPlace, df, x, y, treatment, pp, model, learner>>
       ELSE ConstructBody(o, src, tag, sl, sel)

-----------------------------------------------------------------------------
(* fit, predict, _predict *)

\* df[col] = values on a dataframe object.
SetTe(frame, values) == [frame EXCEPT !.cols = @ \cup {TeCol}, !.te = values]

\* _predict(x): x is a DataFrame, so the model predicts over x.values.
_predict(m, xdf) == MetaPredict(m, xdf.values)

\* fit with the assignment to the Treatment Effect Column left out.
FitNoStore(o) ==
    /\ Exists(o)
    /\ model' = [model EXCEPT ![o] = MetaFit(model[o], x[o].values, treatment[o], y[o])]
    /\ last' = Call("fit", o, NoArg, None, NoMsg, <<>>, "fit")
    /\ UNCHANGED <<heap, ppInPlace, df, x, y, treatment, pp, learner>>

Fit(o) ==
    /\ Exists(o)
    /\ LET m == MetaFit(model[o], x[o].values, treatment[o], y[o])
           preds == _predict(m, x[o])
       IN  /\ model' = [model EXCEPT ![o] = m]
           /\ IF preds.error # None
              THEN /\ last' = Call("fit", o, NoArg, preds.error, NoMsg, <<>>, "predict")
                   /\ UNCHANGED heap
              ELSE /\ heap' = [heap EXCEPT ![df[o]] = SetTe(@, preds.value)]
                   /\ last' = Call("fit", o, NoArg, None, NoMsg, <<>>, "predict")
    /\ UNCHANGED <<ppInPlace, df, x, y, treatment, pp, learner>>

\* What predict(df) returns or raises for the dataframe `frame`.
PredictOutcome(o, frame) == _predict(model[o], Preprocess(frame, FALSE).x)

\* preprocess(df, training=False) acts on the caller's object itself.
PredictHeap(src) ==
    IF ppInPlace THEN [heap EXCEPT ![src] = Preprocess(heap[src], FALSE).df] ELSE heap

\* predict that also stores the estimates, as fit does.
PredictAndStore(o, src) ==
    /\ Exists(o)
    /\ LET r == PredictOutcome(o, heap[src])
           h == PredictHeap(src)
       IN  /\ heap' = IF r.error # None THEN h
                      ELSE [h EXCEPT ![df[o]] = SetTe(@, r.value)]
           /\ last' = Call("predict", o, [src |-> src], r.error, NoMsg, r.value, "predict")
    /\ UNCHANGED <<ppInPlace, df, x, y, treatment, pp, model, learner>>

Predict(o, src) ==
    /\ Exists(o)
    /\ LET r == PredictOutcome(o, heap[src])
       IN  /\ heap' = PredictHeap(src)
           /\ last' = Call("predict", o, [src |-> src], r.error, NoMsg, r.value, "predict")
    /\ UNCHANGED <<ppInPlace, df, x, y, treatment, pp, model, learner>>

-----------------------------------------------------------------------------
(* estimate_ate *)

NoMask == <<>>
MaskInputs(o) == {NoMask} \cup [1..Len(y[o]) -> BOOLEAN]

\* The value estimate_ate returns, or the KeyError of a missing column.
EstimateAteIgnoringMask(o, bool_mask) ==
    IF TeCol \notin heap[df[o]].cols
    THEN [error |-> "KeyError", ate |-> NaN]
    ELSE [error |-> None, ate |-> np_mean(heap[df[o]].te)]

EstimateAteOutcome(o, bool_mask) ==
    LET frame == heap[df[o]]
        a == IF bool_mask = NoMask THEN frame.te ELSE MaskSeq(frame.te, bool_mask)
    IN  IF TeCol \notin frame.cols
        THEN [error |-> "KeyError", ate |-> NaN]
        ELSE [error |-> None, ate |-> np_mean(a)]

EstimateAte(o, bool_mask) ==
    /\ Exists(o)
    /\ LET r == EstimateAteOutcome(o, bool_mask)
       IN  last' = Call("estimate_ate", o, [bool_mask |-> bool_mask], r.error,
                        IF r.error = None THEN NoMsg ELSE Msg("%s", TeCol, <<>>),
                        [ate |-> r.ate], None)
    /\ UNCHANGED <<heap, ppInPlace, df, x, y, treatment, pp, model, learner>>

-----------------------------------------------------------------------------
(* interpret *)

\* The metalearner method interpret selects for (plot, method); None when
\* the method is not recognised.
InterpretFn(plot, method) ==
    IF plot
    THEN (IF method = "feature_importance" THEN "plot_importance"
          ELSE IF method = "shap_values" THEN "plot_shap_values" ELSE None)
    ELSE (IF method = "feature_importance" THEN "get_importance"
          ELSE IF method = "shap_values" THEN "get_shap_values" ELSE None)

\* interpret whose final else falls back to feature importance.
InterpretFallback(o, plot, method) ==
    /\ Exists(o)
    /\ LET fn == IF InterpretFn(plot, method) = None
                 THEN InterpretFn(plot, "feature_importance")
                 ELSE InterpretFn(plot, method)
       IN  IF TeCol \notin heap[df[o]].cols
           THEN last' = Call("interpret", o, [plot |-> plot, method |-> method],
                             "KeyError", Msg("%s", TeCol, <<>>), <<>>, None)
           ELSE last' = Call("interpret", o, [plot |-> plot, method |-> method],
                             None, NoMsg, <<fn, x[o].columns>>, fn)
    /\ UNCHANGED <<heap, ppInPlace, df, x, y, treatment, pp, model, learner>>

Interpret(o, plot, method) ==
    /\ Exists(o)
    /\ LET fn == InterpretFn(plot, method)
       IN  IF TeCol \notin heap[df[o]].cols
           THEN last' = Call("interpret", o, [plot |-> plot, method |-> method],
                             "KeyError", Msg("%s", TeCol, <<>>), <<>>, None)
           ELSE IF fn = None
           THEN last' = Call("interpret", o, [plot |-> plot, method |-> method],
                             "ValueError", Msg("Unknown method: %s", method, <<>>),
                             <<>>, None)
           ELSE last' = Call("interpret", o, [plot |-> plot, method |-> method],
                             None, NoMsg, <<fn, x[o].columns>>, fn)
    /\ UNCHANGED <<heap, ppInPlace, df, x, y, treatment, pp, model, learner>>

-----------------------------------------------------------------------------
(* tune_and_use_default_learner *)

\* The local variable `scoring` after the task-type branch.
LocalScoring(is_classification, scoring) ==
    IF is_classification
    THEN (IF scoring = None THEN "roc_auc" ELSE scoring)
    ELSE (IF scoring = None THEN "neg_mean_squared_error" ELSE scoring)

\* The scoring keyword RandomizedSearchCV is constructed with.
SearchScoring(is_classification, scoring) == "roc_auc"

TuneAndUseDefaultLearner(o, scoring, best_params) ==
    /\ Exists(o)
    /\ LET lt == IF pp[o].is_classification THEN "LGBMClassifier" ELSE "LGBMRegressor"
       IN  /\ learner' = [learner EXCEPT ![o] =
                            [id |-> <<o, "learner">>, kind |-> lt, params |-> best_params]]
           /\ last' = Call("tune_and_use_default_learner", o, [scoring |-> scoring],
                           None, NoMsg,
                           [best_params |-> best_params,
                            estimator |-> lt,
                            search_scoring |->
                                SearchScoring(pp[o].is_classification, scoring)],
                           None)
    /\ UNCHANGED <<heap, ppInPlace, df, x, y, treatment, pp, model>>

-----------------------------------------------------------------------------
(* evaluate_robustness *)

SensitivityMethods == <<"Placebo Treatment", "Random Cause", "Subset Data", "Random Replace">>

\* The values a sensitivity run can report for an ATE.
AteVals == {0, 1}
SampleSizes == {"0.5", "0.8"}

\* data_df: self.x plus the treatment and outcome columns.
RobustnessData(o) ==
    [columns |-> x[o].columns \o <<"CausalNLP_t", "CausalNLP_y">>,
     values |-> [i \in 1..Len(x[o].values) |->
                    x[o].values[i] \o <<treatment[o][i], y[o][i]>>]]

\* Sensitivity(...).sensitivity_analysis(...): one row per method with the
\* ATE and the ATE recomputed under the perturbation; reads the learner.
SensitivityAnalysis(m, data, ate, newAte) ==
    IF ~m.fitted.fit THEN [error |-> "NotFittedError", table |-> <<>>]
    ELSE [error |-> None,
          table |-> [i \in 1..Len(SensitivityMethods) |->
                        [Method |-> SensitivityMethods[i], ATE |-> ate,
                         NewATE |-> newAte[i]]]]

\* The 'Distance from Desired (should be near 0)' column.
WithDistance(table) ==
    [i \in 1..Len(table) |->
        [Method |-> table[i].Method, ATE |-> table[i].ATE, NewATE |-> table[i].NewATE,
         Distance |-> IF table[i].Method = "Placebo Treatment"
                      THEN table[i].NewATE - 0
                      ELSE table[i].NewATE - table[i].ATE]]

RobustnessCall(o, sample_size, ate, newAte) ==
    LET r == SensitivityAnalysis(model[o], RobustnessData(o), ate, newAte)
    IN  Call("evaluate_robustness", o, [sample_size |-> sample_size], r.error, NoMsg,
             IF r.error = None THEN WithDistance(r.table) ELSE <<>>, "estimate_ate")

\* evaluate_robustness adding the two columns to self.x itself.
EvaluateRobustnessNoCopy(o, sample_size, ate, newAte) ==
    /\ Exists(o)
    /\ x' = [x EXCEPT ![o] = RobustnessData(o)]
    /\ last' = RobustnessCall(o, sample_size, ate, newAte)
    /\ UNCHANGED <<heap, ppInPlace, df, y, treatment, pp, model, learner>>

EvaluateRobustness(o, sample_size, ate, newAte) ==
    /\ Exists(o)
    /\ last' = RobustnessCall(o, sample_size, ate, newAte)
    /\ UNCHANGED <<heap, ppInPlace, df, x, y, treatment, pp, model, learner>>

-----------------------------------------------------------------------------
(* The caller's moves *)

LearnerArgs ==
    { <<NoLearner, NoLearner>>, <<CallerLearner, NoLearner>>,
      <<CallerLearner, CallerEffectLearner>> }

DoConstruct(S) ==
    \E o \in S, tag \in TagInputs, ls \in LearnerArgs :
        Construct(o, CallerTrain, tag, ls[1], ls[2])

DoFit(S) == \E o \in S : Fit(o)

DoPredict(S) == \E o \in S, src \in CallerFrames : Predict(o, src)

DoEstimateAte(S) == \E o \in S : \E mask \in MaskInputs(o) : EstimateAte(o, mask)

DoInterpret(S) ==
    \E o \in S, plot \in BOOLEAN, method \in MethodInputs : Interpret(o, plot, method)

DoTune(S) ==
    \E o \in S, scoring \in ScoringInputs, bp \in BestParams :
        TuneAndUseDefaultLearner(o, scoring, bp)

DoEvaluateRobustness(S) ==
    \E o \in S, ss \in SampleSizes, ate \in AteVals, d \in AteVals :
        EvaluateRobustness(o, ss, ate, [i \in 1..Len(SensitivityMethods) |->
                                           IF i = 1 THEN d ELSE ate + d])

\* One orchestrator through its whole interface.
Next ==
    \/ DoConstruct({"cm1"})
    \/ DoFit({"cm1"})
    \/ DoPredict({"cm1"})
    \/ DoEstimateAte({"cm1"})
    \/ DoInterpret({"cm1"})
    \/ DoTune({"cm1"})
    \/ DoEvaluateRobustness({"cm1"})

Spec == Init /\ [][Next]_vars

\* Two orchestrators over the same source dataframe: construction, fit and
\* predict, the operations that read or write dataframes and build learners.
NextPair ==
    \/ DoConstruct(Orchs)
    \/ DoFit(Orchs)
    \/ DoPredict(Orchs)

SpecPair == Init /\ [][NextPair]_vars

-----------------------------------------------------------------------------
(* Properties *)

ValidTags == {"t-learner", "s-learner", "x-learner", "r-learner"}
ValidMethods == {"feature_importance", "shap_values"}
Listed(msg) == {msg.listed[i] : i \in 1..Len(msg.listed)}
Stored(o) == heap[df[o]]
ProgramState == <<heap, ppInPlace, df, x, y, treatment, pp, model, learner>>

RECURSIVE SetSum(_, _)
SetSum(f, S) ==
    IF S = {} THEN 0
    ELSE LET i == CHOOSE j \in S : TRUE IN f[i] + SetSum(f, S \ {i})

\* C1: constructing with a metalearner_type outside the four recognised tags
\* fails with ValueError, the message lists the four valid tags, and nothing
\* was copied, preprocessed or built: no instance and no dataframe copy exist.
C1_InvalidTagRejected ==
    (last.op = "__init__" /\ last.arg.tag \notin ValidTags) =>
        /\ last.error = "ValueError"
        /\ Listed(last.msg) = ValidTags
        /\ ~Exists(last.orch)
        /\ heap[CopyRef(last.orch)] = NoFrame
        /\ heap[PpRef(last.orch)] = NoFrame
        /\ model[last.orch] = NoModel
        /\ x[last.orch] = NoX

C1_Witness ==
    /\ last.op = "__init__"
    /\ last.arg.tag = "z-learner"
    /\ last.error = "ValueError"

\* C2: construction and fit never change a dataframe of the caller (no
\* column added or dropped, no value changed, no Treatment Effect Column),
\* the stored dataset is never the caller's object, and a construction or
\* fit of one orchestrator changes neither the stored dataset nor the
\* Treatment Effect Column of the other.
C2_CallerFrameUntouched ==
    /\ [](TeCol \notin heap[CallerTrain].cols)
    /\ [](\A o \in Orchs : Exists(o) => df[o] \notin CallerFrames)
    /\ [](\A o, p \in Orchs : (o # p /\ Exists(o)) => df[o] # df[p])
    /\ [][last'.op \in {"__init__", "fit"} =>
            /\ \A f \in CallerFrames : heap'[f] = heap[f]
            /\ \A p \in Orchs \ {last'.orch} :
                  /\ df'[p] = df[p]
                  /\ Exists(p) => heap'[df[p]] = heap[df[p]]]_vars

C2_Witness ==
    /\ last.op = "fit"
    /\ \A o \in Orchs : Exists(o) /\ model[o].fitted.fit /\ TeCol \in Stored(o).cols
    /\ "id" \in heap[CallerTrain].cols

RoleIds(o) == {model[o].roles[r].id : r \in DOMAIN model[o].roles}

\* C3: every learner handed to a metalearner is an independent deep copy: no
\* two roles of one metalearner hold the same object, no role holds an object
\* the caller supplied, and two orchestrators share no learner object.
C3_IndependentCopies ==
    /\ \A o \in Orchs : Exists(o) =>
          /\ \A r1, r2 \in DOMAIN model[o].roles :
                r1 # r2 => model[o].roles[r1].id # model[o].roles[r2].id
          /\ RoleIds(o) \cap {CallerLearner.id, CallerEffectLearner.id} = {}
    /\ \A o, p \in Orchs : (o # p /\ Exists(o) /\ Exists(p)) => RoleIds(o) \cap RoleIds(p) = {}

BaseRoles(m) ==
    DOMAIN m.roles \cap {"learner", "control_outcome_learner",
                         "treatment_outcome_learner", "outcome_learner"}

\* C4: when tune_and_use_default_learner ran after construction with the
\* default learner and before the first fit, the base learner that fit trains
\* inside the metalearner has the returned best parameters.
C4_FitTrainsTunedLearner ==
    [][\A o \in Orchs :
        (/\ last'.op = "fit" /\ last'.orch = o
         /\ learner[o] # NoLearner
         /\ ~model[o].fitted.fit
         /\ \A r \in BaseRoles(model[o]) : model[o].roles[r].params = "default") =>
           \A r \in BaseRoles(model'[o]) :
              model'[o].roles[r].params = learner[o].params]_vars

C6_PredictKeepsAte ==
    [][\A o \in Orchs :
        (last'.op = "predict" /\ last'.orch = o /\ model[o].fitted.fit) =>
          /\ model' = model
          /\ Stored(o)'.te = Stored(o).te
          /\ \A mask \in MaskInputs(o) :
                EstimateAteOutcome(o, mask)' = EstimateAteOutcome(o, mask)]_vars

C6_Witness ==
    /\ last.op = "predict"
    /\ last.arg.src = CallerTest
    /\ last.error = None
    /\ TeCol \in Stored(last.orch).cols
    /\ last.value # Stored(last.orch).te

SelectedRows(o, bool_mask) ==
    IF bool_mask = NoMask THEN 1..Len(Stored(o).te)
    ELSE {i \in 1..Len(Stored(o).te) : bool_mask[i]}

\* C7: on a fitted orchestrator estimate_ate returns {'ate': m} with m the
\* unweighted mean of the Treatment Effect Column over all rows (no mask) or
\* over exactly the rows the mask selects, and changes no state.
C7_AteIsMaskedMean ==
    /\ []((last.op = "estimate_ate" /\ TeCol \in Stored(last.orch).cols) =>
            /\ last.error = None
            /\ LET sel == SelectedRows(last.orch, last.arg.bool_mask)
                   m == last.value.ate
               IN  sel # {} =>
                      /\ m.den > 0
                      /\ m.num * Cardinality(sel) = m.den * SetSum(Stored(last.orch).te, sel))
    /\ [][last'.op = "estimate_ate" => ProgramState' = ProgramState]_vars

C7_Witness ==
    /\ last.op = "estimate_ate"
    /\ last.error = None
    /\ last.arg.bool_mask # NoMask
    /\ \E i, j \in 1..Len(last.arg.bool_mask) :
          /\ last.arg.bool_mask[i] /\ ~last.arg.bool_mask[j]
          /\ Stored(last.orch).te[i] # Stored(last.orch).te[j]

\* C8 as stated: in every state interpret with an unrecognised method fails
\* with ValueError before anything else, the message showing the value and
\* the recognised set.
C8_Original ==
    (last.op = "interpret" /\ last.arg.method \notin ValidMethods) =>
        /\ last.error = "ValueError"
        /\ last.msg.shown = last.arg.method
        /\ Listed(last.msg) = ValidMethods
        /\ last.mlcall = None

\* C8 amended: once the Treatment Effect Column exists, interpret with an
\* unrecognised method fails with ValueError before any call into the
\* metalearner, the message showing the value only; before fit it fails with
\* KeyError for the missing column; either way no state changes.
C8_Amended ==
    /\ []((last.op = "interpret" /\ last.arg.method \notin ValidMethods) =>
            /\ last.mlcall = None
            /\ IF TeCol \in Stored(last.orch).cols
               THEN /\ last.error = "ValueError"
                    /\ last.msg.shown = last.arg.method
                    /\ last.msg.listed = <<>>
               ELSE /\ last.error = "KeyError"
                    /\ last.msg.shown = TeCol)
    /\ [][last'.op = "interpret" => ProgramState' = ProgramState]_vars

C8_Witness ==
    /\ last.op = "interpret"
    /\ last.arg.method = "permutation"
    /\ last.arg.plot
    /\ last.error = "ValueError"

\* C9: the randomized search scores with the caller's scoring when given,
\* else with ROC-AUC for classification and negative MSE for regression.
C9_ScoringCriterion ==
    last.op = "tune_and_use_default_learner" =>
        last.value.search_scoring =
            IF last.arg.scoring # None THEN last.arg.scoring
            ELSE IF pp[last.orch].is_classification THEN "roc_auc"
            ELSE "neg_mean_squared_error"

\* C10: after a fit the Treatment Effect Column holds, row by row, the
\* fitted model's estimate for that row of the fit-time X, and predict on
\* the training dataframe returns the Treatment Effect Column.
C10_TeColumnIsPrediction ==
    /\ (last.op = "fit" /\ last.error = None) =>
          /\ TeCol \in Stored(last.orch).cols
          /\ Len(Stored(last.orch).te) = Len(x[last.orch].values)
          /\ \A i \in 1..Len(x[last.orch].values) :
                <<Stored(last.orch).te[i]>> =
                    MetaPredict(model[last.orch], <<x[last.orch].values[i]>>).value
    /\ (last.op = "predict" /\ last.arg.src = CallerTrain
            /\ model[last.orch].fitted.fit) =>
          /\ last.error = None
          /\ last.value = Stored(last.orch).te

C10_Witness ==
    /\ last.op = "predict"
    /\ last.arg.src = CallerTrain
    /\ last.error = None
    /\ Len(last.value) > 1
    /\ last.value[1] # last.value[2]

====
